---------------------------- MODULE Spec2Model ----------------------------
(***************************************************************************)
(* Model of mailblog/subscription/handler.py: the double opt-in            *)
(* subscription handlers (subscribe, verify, unsubscribe) behind the       *)
(* lambda_handler entry point, the DynamoDB user table they read and       *)
(* write, and the SES mails they send.                                     *)
(*                                                                         *)
(* One invocation of lambda_handler is one step.  The collaborators        *)
(* (table.get_item, table.put_item, open() of a template, ses.send_email)  *)
(* may raise; the call that raises in an invocation is the invocation's    *)
(* second input, next to the API Gateway event.                            *)
(***************************************************************************)
EXTENDS Integers, Sequences, FiniteSets, TLC

(***************************************************************************)
(* Bounds of the model.                                                    *)
(***************************************************************************)
\* number of tokens os.urandom(16).hex() is asked for in one behaviour
MaxTokens == 2
\* number of times the wall clock is seen to advance
MaxClock == 1

(***************************************************************************)
(* Values.                                                                 *)
(***************************************************************************)
\* Python's None where a string is expected
None == "None"
\* a key that is missing from a dict
Absent == "<absent>"
\* the email addresses requests are made for
Emails == {"a@x.com", "b@x.com"}
\* a token is the 32 hex digit string of os.urandom(16).hex(); the n-th
\* string generated is written n.  NoToken is a missing or empty token.
Tokens == 1 .. MaxTokens
NoToken == 0

FROM_EMAIL == "FROM_EMAIL"
Domain == "DOMAIN"

headers ==
    [ AccessControlAllowOrigin |-> "*", AccessControlAllowCredentials |-> TRUE ]

\* what table.get_item gives for a key with no item: response.get("Item") is None
NoItem == [ email |-> None ]

(***************************************************************************)
(* API Gateway events.  body is the "body" key of the event: missing, null,*)
(* a string that is no JSON, or a JSON object with or without "email".     *)
(* queryStringParameters is missing, null, or a dict with or without       *)
(* "email" and "token".                                                    *)
(***************************************************************************)
NullBody == [ kind |-> "null", email |-> None ]
Bodies ==
    [ kind : {"absent", "null", "invalid"}, email : {None} ]
        \cup [ kind : {"object"}, email : Emails \cup {None, ""} ]

NullQuery == [ kind |-> "null", email |-> None, token |-> NoToken ]
Queries ==
    [ kind : {"absent", "null"}, email : {None}, token : {NoToken} ]
        \cup [ kind : {"object"}, email : Emails \cup {None},
               token : Tokens \cup {NoToken} ]

SomeQuery == [ kind |-> "object", email |-> "a@x.com", token |-> 1 ]
SomeBody == [ kind |-> "object", email |-> "a@x.com" ]

\* (method, path) pairs that are none of the three endpoints, or lack a key
OtherRoutes ==
    { << "GET", "/subscribe" >>, << "POST", "/verify" >>,
      << "POST", "/unsubscribe" >>, << "DELETE", "/verify" >>,
      << "GET", "/" >>, << Absent, "/verify" >>, << "POST", Absent >> }

Events ==
    [ httpMethod : {"POST"}, path : {"/subscribe"}, body : Bodies,
      queryStringParameters : {NullQuery} ]
    \cup
    [ httpMethod : {"GET"}, path : {"/verify", "/unsubscribe"},
      body : {NullBody}, queryStringParameters : Queries ]
    \cup
    { [ httpMethod |-> r[1], path |-> r[2], body |-> SomeBody,
        queryStringParameters |-> SomeQuery ] : r \in OtherRoutes }

\* the value of request before the first invocation
NoRequest ==
    [ httpMethod |-> Absent, path |-> Absent, body |-> NullBody,
      queryStringParameters |-> NullQuery ]

\* the collaborator call that raises in an invocation, if it is reached
Faults == {"none", "get_item", "put_item", "open", "send_email"}

\* the collaborator calls the handler of an event can reach: subscribe and
\* verify read and write the table, open templates and send a mail;
\* unsubscribe reads and writes the table; a handler returns or raises
\* before its first call when a field it requires is missing, and
\* lambda_handler itself calls none
FaultsOf(event) ==
    IF event.httpMethod = "POST" /\ event.path = "/subscribe"
    THEN IF event.body.kind = "object" /\ event.body.email \in Emails
         THEN Faults ELSE {"none"}
    ELSE IF event.httpMethod = "GET" /\ event.path \in {"/verify", "/unsubscribe"}
    THEN IF /\ event.queryStringParameters.kind = "object"
            /\ event.queryStringParameters.email \in Emails
            /\ event.queryStringParameters.token \in Tokens
         THEN IF event.path = "/verify"
              THEN Faults ELSE {"none", "get_item", "put_item"}
         ELSE {"none"}
    ELSE {"none"}

VARIABLES
    table,              \* the DynamoDB table: email -> item
    clock,              \* datetime.datetime.now()
    nextToken,          \* the next value of os.urandom(16).hex()
    request,            \* the event of the last invocation
    fault,              \* what raised in it: a collaborator, the event, or "none"
    response,           \* what the last invocation returned
    sent,               \* the mails ses.send_email accepted during it
    mailed,             \* history: <<email, token>> of every verification mail sent
    verifiedWith,       \* history: <<email, token>> of every verify that put an item
    unsubscribedWith,   \* history: <<email, token>> of every unsubscribe that put an item
    inflight,           \* concurrent invocations: where each is and its locals
    replaced            \* history: <<email, token>> of every token a put of subscribe
                        \* replaced while invocations ran concurrently

vars ==
    << table, clock, nextToken, request, fault, response, sent, mailed,
       verifiedWith, unsubscribedWith, inflight, replaced >>

history == << mailed, verifiedWith, unsubscribedWith >>

\* what only the interleaved specification changes
concurrent == << inflight, replaced >>

\* what only the specification of whole invocations changes
sequential == << clock, request, fault, response, history >>

(***************************************************************************)
(* Helpers of the handlers.                                                *)
(***************************************************************************)
\* Python's "not x" for a string or None
Falsy(x) == x \in {None, ""}

\* datetime.datetime.now().isoformat()
now == clock

Response(statusCode, message) ==
    [ statusCode |-> statusCode, headers |-> headers,
      body |-> [ message |-> message ] ]

InternalServerError == Response(500, "Internal server error")

\* load_body raises ValueError for a missing key or a string that is no JSON
load_body_raises(event) == event.body.kind \in {"absent", "invalid"}

\* table.get_item(Key={"email": email}) ... response.get("Item")
get_user(email) == IF email \in DOMAIN table THEN table[email] ELSE NoItem

\* mutant: the item becomes the only one in the table
put_item_alone(item) == [ e \in {item.email} |-> item ]

\* table.put_item(Item=item): the item replaces the one with the same key
put_item(item) ==
    [ e \in DOMAIN table \cup {item.email} |->
        IF e = item.email THEN item ELSE table[e] ]

\* the f-strings f"{DOMAIN}/verify?email={email}&token={token}"
url(path, email, token) ==
    [ domain |-> Domain, path |-> path, email |-> email, token |-> token ]

\* the data send_email hands to ses.send_email
message(email, subject, body) ==
    [ Source |-> FROM_EMAIL, ToAddresses |-> << email >>,
      Subject |-> subject, Body |-> body ]

\* mutant: the new item is stored as verified
new_item_verified(email, token) ==
    [ email |-> email, token |-> token, verified |-> TRUE,
      created_at |-> now, updated_at |-> now ]

\* mutant: a record that exists keeps its token
new_item_keeps_token(email, token) ==
    [ email |-> email,
      token |-> IF email \in DOMAIN table THEN table[email].token ELSE token,
      verified |-> FALSE, created_at |-> now, updated_at |-> now ]

\* lines 132-138 of subscribe: the item of a new or renewed subscription
new_item(email, token) ==
    [ email |-> email, token |-> token, verified |-> FALSE,
      created_at |-> now, updated_at |-> now ]

\* mutant: only the timestamp is refreshed
unsubscribed_item_keeps_flag(user) == [ user EXCEPT !.updated_at = now ]

\* mutant: the flag is set instead of cleared
unsubscribed_item_sets_flag(user) ==
    [ user EXCEPT !.verified = TRUE, !.updated_at = now ]

\* lines 200-201 of unsubscribe
unsubscribed_item(user) ==
    [ user EXCEPT !.verified = FALSE, !.updated_at = now ]

\* mutant: only the timestamp is refreshed
verified_item_keeps_flag(user) == [ user EXCEPT !.updated_at = now ]

\* mutant: created_at is refreshed too
verified_item_resets_created(user) ==
    [ user EXCEPT !.verified = TRUE, !.created_at = now, !.updated_at = now ]

\* lines 246-247 of verify
verified_item(user) ==
    [ user EXCEPT !.verified = TRUE, !.updated_at = now ]

\* mutant: the test of the flag is inverted
already_subscribed_inverted(user) == user # NoItem /\ ~user.verified

\* "if user and user.get('verified')" of subscribe
already_subscribed(user) == user # NoItem /\ user.verified

\* mutant: the token is not compared
token_rejected_unchecked(user, token) == user = NoItem

\* mutant: a record that is verified already is refused
token_rejected_once_verified(user, token) ==
    user = NoItem \/ user.token # token \/ user.verified

\* "if not user or user.get('token') != token" of verify and unsubscribe
token_rejected(user, token) == user = NoItem \/ user.token # token

\* the body of the verification mail: templates/verify.html with
\* {{verify_url}} and {{unsubscribe_url}} replaced, templates/verify.txt
\* with {{verify_url}} replaced
verify_mail_body(email, token) ==
    [ Html |-> [ verify_url |-> url("/verify", email, token),
                 unsubscribe_url |-> url("/unsubscribe", email, token) ],
      Text |-> [ verify_url |-> url("/verify", email, token) ] ]

\* the body of the confirmation mail: templates/verified.html and
\* templates/verified.txt with {{unsubscribe_url}} replaced
verified_mail_body(email, token) ==
    [ Html |-> [ unsubscribe_url |-> url("/unsubscribe", email, token) ],
      Text |-> [ unsubscribe_url |-> url("/unsubscribe", email, token) ] ]

(***************************************************************************)
(* How an invocation ends.                                                 *)
(***************************************************************************)
\* a return before anything was written or sent
Returns(r) ==
    /\ response' = r
    /\ fault' = "none"
    /\ sent' = << >>
    /\ UNCHANGED << table, nextToken, history >>

\* mutant: the response names what raised
Raises_exposed(f) ==
    /\ response' = Response(500, f)
    /\ fault' = f
    /\ sent' = << >>
    /\ UNCHANGED << table, nextToken, history >>

\* the "except Exception" of a handler, reached before anything was written
Raises(f) ==
    /\ response' = InternalServerError
    /\ fault' = f
    /\ sent' = << >>
    /\ UNCHANGED << table, nextToken, history >>

(***************************************************************************)
(* subscribe(event, _)                                                     *)
(***************************************************************************)
subscribe(event, f) ==
    /\ request' = event
    /\ UNCHANGED clock
    /\ IF load_body_raises(event) \/ event.body.kind = "null"
       THEN Raises("event")
       ELSE LET email == event.body.email IN
         IF Falsy(email)
         THEN Returns(Response(400, "Email is required"))
         ELSE IF f = "get_item"
         THEN Raises(f)
         ELSE IF already_subscribed(get_user(email))
         THEN Returns(Response(400, "User already subscribed"))
         ELSE
           /\ nextToken <= MaxTokens
           /\ nextToken' = nextToken + 1
           /\ UNCHANGED << verifiedWith, unsubscribedWith >>
           /\ LET item == new_item(email, nextToken) IN
              IF f = "put_item"
              THEN /\ response' = InternalServerError
                   /\ fault' = f
                   /\ sent' = << >>
                   /\ UNCHANGED << table, mailed >>
              ELSE
                /\ table' = put_item(item)
                /\ IF f \in {"open", "send_email"}
                   THEN /\ response' = InternalServerError
                        /\ fault' = f
                        /\ sent' = << >>
                        /\ UNCHANGED mailed
                   ELSE /\ sent' = << message(email, "Verify your email",
                                         verify_mail_body(email, item.token)) >>
                        /\ mailed' = mailed \cup { << email, item.token >> }
                        /\ fault' = "none"
                        /\ response' =
                             Response(200, "User subscribed successfully")

(***************************************************************************)
(* unsubscribe(event, _)                                                   *)
(***************************************************************************)
unsubscribe(event, f) ==
    /\ request' = event
    /\ UNCHANGED clock
    /\ LET query_params == event.queryStringParameters IN
       IF query_params.kind # "object"
       THEN Raises("event")
       ELSE LET email == query_params.email
                token == query_params.token IN
         IF Falsy(email) \/ token = NoToken
         THEN Returns(Response(400, "Email and token are required"))
         ELSE IF f = "get_item"
         THEN Raises(f)
         ELSE LET user == get_user(email) IN
           IF token_rejected(user, token)
           THEN Returns(Response(400, "Failed to unsubscribe"))
           ELSE IF f = "put_item"
           THEN Raises(f)
           ELSE
             /\ table' = put_item(unsubscribed_item(user))
             /\ unsubscribedWith' = unsubscribedWith \cup { << email, token >> }
             /\ sent' = << >>
             /\ fault' = "none"
             /\ response' = Response(200, "You are successfully unsubscribed")
             /\ UNCHANGED << nextToken, mailed, verifiedWith >>

(***************************************************************************)
(* mutant of verify: an email that has no record is answered apart from a  *)
(* wrong token                                                             *)
(***************************************************************************)
verify_leaky(event, f) ==
    /\ request' = event
    /\ UNCHANGED clock
    /\ LET query_params == event.queryStringParameters IN
       IF query_params.kind # "object"
       THEN Raises("event")
       ELSE LET email == query_params.email
                token == query_params.token IN
         IF Falsy(email) \/ token = NoToken
         THEN Returns(Response(400, "Email and token are required"))
         ELSE IF f = "get_item"
         THEN Raises(f)
         ELSE LET user == get_user(email) IN
           IF user = NoItem
           THEN Returns(Response(404, "User not found"))
           ELSE IF token_rejected(user, token)
           THEN Returns(Response(400, "User verification failed"))
           ELSE IF f = "put_item"
           THEN Raises(f)
           ELSE
             /\ table' = put_item(verified_item(user))
             /\ verifiedWith' = verifiedWith \cup { << email, token >> }
             /\ UNCHANGED << nextToken, mailed, unsubscribedWith >>
             /\ IF f \in {"open", "send_email"}
                THEN /\ response' = InternalServerError
                     /\ fault' = f
                     /\ sent' = << >>
                ELSE /\ sent' = << message(email, "Email verified",
                                       verified_mail_body(email, token)) >>
                     /\ fault' = "none"
                     /\ response' = Response(200, "User verified successfully")

(***************************************************************************)
(* verify(event, _)                                                        *)
(***************************************************************************)
verify(event, f) ==
    /\ request' = event
    /\ UNCHANGED clock
    /\ LET query_params == event.queryStringParameters IN
       IF query_params.kind # "object"
       THEN Raises("event")
       ELSE LET email == query_params.email
                token == query_params.token IN
         IF Falsy(email) \/ token = NoToken
         THEN Returns(Response(400, "Email and token are required"))
         ELSE IF f = "get_item"
         THEN Raises(f)
         ELSE LET user == get_user(email) IN
           IF token_rejected(user, token)
           THEN Returns(Response(400, "User verification failed"))
           ELSE IF f = "put_item"
           THEN Raises(f)
           ELSE
             /\ table' = put_item(verified_item(user))
             /\ verifiedWith' = verifiedWith \cup { << email, token >> }
             /\ UNCHANGED << nextToken, mailed, unsubscribedWith >>
             /\ IF f \in {"open", "send_email"}
                THEN /\ response' = InternalServerError
                     /\ fault' = f
                     /\ sent' = << >>
                ELSE /\ sent' = << message(email, "Email verified",
                                       verified_mail_body(email, token)) >>
                     /\ fault' = "none"
                     /\ response' = Response(200, "User verified successfully")

(***************************************************************************)
(* lambda_handler(event, _)                                                *)
(***************************************************************************)
\* mutant: the method is not tested
route_by_path(event) ==
    IF event.httpMethod = Absent \/ event.path = Absent THEN "raise"
    ELSE IF event.path = "/subscribe" THEN "subscribe"
    ELSE IF event.path = "/unsubscribe" THEN "unsubscribe"
    ELSE IF event.path = "/verify" THEN "verify"
    ELSE "else"

\* the handler the if/elif chain of lambda_handler picks
route(event) ==
    IF event.httpMethod = Absent \/ event.path = Absent THEN "raise"
    ELSE IF event.httpMethod = "POST" /\ event.path = "/subscribe"
    THEN "subscribe"
    ELSE IF event.httpMethod = "GET" /\ event.path = "/unsubscribe"
    THEN "unsubscribe"
    ELSE IF event.httpMethod = "GET" /\ event.path = "/verify"
    THEN "verify"
    ELSE "else"

MethodNotAllowed(event, f) ==
    /\ request' = event
    /\ UNCHANGED clock
    /\ Returns(Response(405, "Method not allowed"))

KeyErrorCaught(event, f) ==
    /\ request' = event
    /\ UNCHANGED clock
    /\ Raises("event")

lambda_handler(event, f) ==
    \/ route(event) = "subscribe" /\ subscribe(event, f)
          /\ UNCHANGED concurrent
    \/ route(event) = "unsubscribe" /\ unsubscribe(event, f)
          /\ UNCHANGED concurrent
    \/ route(event) = "verify" /\ verify(event, f)
          /\ UNCHANGED concurrent
    \/ route(event) = "else" /\ MethodNotAllowed(event, f)
          /\ UNCHANGED concurrent
    \/ route(event) = "raise" /\ KeyErrorCaught(event, f)
          /\ UNCHANGED concurrent

\* time passes between invocations
Tick ==
    /\ clock < MaxClock
    /\ clock' = clock + 1
    /\ UNCHANGED << table, nextToken, request, fault, response, sent, history >>
    /\ UNCHANGED concurrent

(***************************************************************************)
(* Concurrent invocations.  Each Lambda execution environment runs one     *)
(* invocation at a time; invocations in different environments interleave  *)
(* at their calls of the table and of SES.  A step is one such call and    *)
(* the local code that follows it up to the next call.                     *)
(***************************************************************************)
MaxInFlight == 2

Lambdas == 1 .. MaxInFlight

\* an environment that runs no invocation and has returned none
Idle ==
    [ pc |-> "idle", op |-> "", email |-> None, token |-> NoToken,
      item |-> NoItem, response |-> Response(0, "") ]

\* an environment whose invocation has returned r
Returned(r) == [ Idle EXCEPT !.pc = "returned", !.response = r ]

\* the events whose handler reaches get_user: every other event returns or
\* raises in local code, before any call another invocation could observe
StoreEvents ==
    { event \in Events :
        \/ /\ route(event) = "subscribe"
           /\ ~load_body_raises(event)
           /\ event.body.kind # "null"
           /\ ~Falsy(event.body.email)
        \/ /\ route(event) \in {"verify", "unsubscribe"}
           /\ event.queryStringParameters.kind = "object"
           /\ ~Falsy(event.queryStringParameters.email)
           /\ event.queryStringParameters.token # NoToken }

\* lambda_handler(event, _) up to the call of get_user
invoke(p, event) ==
    /\ inflight[p].pc \in {"idle", "returned"}
    /\ inflight' =
         [ inflight EXCEPT ![p] =
             [ pc |-> "get_item",
               op |-> route(event),
               email |-> IF route(event) = "subscribe"
                         THEN event.body.email
                         ELSE event.queryStringParameters.email,
               token |-> IF route(event) = "subscribe"
                         THEN NoToken
                         ELSE event.queryStringParameters.token,
               item |-> NoItem,
               response |-> Response(0, "") ] ]
    /\ UNCHANGED << table, nextToken, sent, replaced, sequential >>

\* get_user(email), the guard on its result and the item the handler builds
call_get_user(p, f) ==
    LET l == inflight[p]
        user == get_user(l.email)
        returns(r) == /\ inflight' = [ inflight EXCEPT ![p] = Returned(r) ]
                      /\ UNCHANGED nextToken
        puts(item) == inflight' = [ inflight EXCEPT ![p].pc = "put_item",
                                                    ![p].item = item ]
    IN  /\ l.pc = "get_item"
        /\ IF f = "get_item"
           THEN returns(InternalServerError)
           ELSE IF l.op = "subscribe"
           THEN IF already_subscribed(user)
                THEN returns(Response(400, "User already subscribed"))
                ELSE /\ nextToken <= MaxTokens
                     /\ nextToken' = nextToken + 1
                     /\ puts(new_item(l.email, nextToken))
           ELSE IF l.op = "unsubscribe"
           THEN IF token_rejected(user, l.token)
                THEN returns(Response(400, "Failed to unsubscribe"))
                ELSE puts(unsubscribed_item(user)) /\ UNCHANGED nextToken
           ELSE IF token_rejected(user, l.token)
                THEN returns(Response(400, "User verification failed"))
                ELSE puts(verified_item(user)) /\ UNCHANGED nextToken
        /\ UNCHANGED << table, sent, replaced, sequential >>

\* add_user(item) of subscribe, table.put_item(Item=user) of verify and
\* unsubscribe; unsubscribe returns after it
call_put_item(p, f) ==
    LET l == inflight[p]
    IN  /\ l.pc = "put_item"
        /\ IF f = "put_item"
           THEN /\ inflight' =
                     [ inflight EXCEPT ![p] = Returned(InternalServerError) ]
                /\ UNCHANGED << table, replaced >>
           ELSE /\ table' = put_item(l.item)
                /\ replaced' =
                     IF /\ l.op = "subscribe"
                        /\ l.email \in DOMAIN table
                        /\ table[l.email].token # l.item.token
                     THEN replaced \cup { << l.email, table[l.email].token >> }
                     ELSE replaced
                /\ inflight' =
                     IF l.op = "unsubscribe"
                     THEN [ inflight EXCEPT ![p] = Returned(
                              Response(200, "You are successfully unsubscribed")) ]
                     ELSE [ inflight EXCEPT ![p].pc = "send_email" ]
        /\ UNCHANGED << nextToken, sent, sequential >>

\* the templates and send_email of subscribe and verify; sent holds the
\* mail SES accepted last
call_send_email(p, f) ==
    LET l == inflight[p]
    IN  /\ l.pc = "send_email"
        /\ IF f \in {"open", "send_email"}
           THEN /\ inflight' =
                     [ inflight EXCEPT ![p] = Returned(InternalServerError) ]
                /\ UNCHANGED sent
           ELSE IF l.op = "subscribe"
           THEN /\ sent' = << message(l.email, "Verify your email",
                                 verify_mail_body(l.email, l.item.token)) >>
                /\ inflight' =
                     [ inflight EXCEPT ![p] = Returned(
                         Response(200, "User subscribed successfully")) ]
           ELSE /\ sent' = << message(l.email, "Email verified",
                                 verified_mail_body(l.email, l.token)) >>
                /\ inflight' =
                     [ inflight EXCEPT ![p] = Returned(
                         Response(200, "User verified successfully")) ]
        /\ UNCHANGED << table, nextToken, replaced, sequential >>

(***************************************************************************)
(* The specification.                                                      *)
(***************************************************************************)
Init ==
    /\ inflight = [ p \in Lambdas |-> Idle ]
    /\ replaced = {}
    /\ table = [ e \in {} |-> NoItem ]
    /\ clock = 0
    /\ nextToken = 1
    /\ request = NoRequest
    /\ fault = "none"
    /\ response = Response(0, "")
    /\ sent = << >>
    /\ mailed = {}
    /\ verifiedWith = {}
    /\ unsubscribedWith = {}

Invoke == \E event \in Events : \E f \in FaultsOf(event) : lambda_handler(event, f)

Next == Invoke \/ Tick

Spec == Init /\ [][Next]_vars

\* invocations that interleave at their calls of the collaborators
NextC ==
    \E p \in Lambdas :
        \/ \E event \in StoreEvents : invoke(p, event)
        \/ \E f \in {"none", "get_item"} : call_get_user(p, f)
        \/ \E f \in {"none", "put_item"} : call_put_item(p, f)
        \/ \E f \in {"none", "open", "send_email"} : call_send_email(p, f)

Concurrent == Init /\ [][NextC]_vars

(***************************************************************************)
(* Vocabulary of the properties.                                           *)
(***************************************************************************)
\* In a step of [Next]_vars that changes vars: the step is an invocation of
\* lambda_handler (Tick is the only other step, and it advances the clock).
Invocation == clock' = clock

\* the event is a well-formed POST /subscribe for email e
IsSubscribe(event, e) ==
    /\ route(event) = "subscribe"
    /\ event.body.kind = "object"
    /\ event.body.email = e

\* the event is a GET /verify with email e and token t
IsVerify(event, e, t) ==
    /\ route(event) = "verify"
    /\ event.queryStringParameters.kind = "object"
    /\ event.queryStringParameters.email = e
    /\ event.queryStringParameters.token = t

\* the event is a GET /unsubscribe with email e and token t
IsUnsubscribe(event, e, t) ==
    /\ route(event) = "unsubscribe"
    /\ event.queryStringParameters.kind = "object"
    /\ event.queryStringParameters.email = e
    /\ event.queryStringParameters.token = t

HasRecord(e) == e \in DOMAIN table

\* the tokens stored in the table or mailed to anyone so far
KnownTokens ==
    { table[e].token : e \in DOMAIN table } \cup { p[2] : p \in mailed }

(***************************************************************************)
(* C1: a subscribe request for an email that has no record, or whose       *)
(* record is not verified, in which no collaborator raises, stores a       *)
(* record for that email with verified = false and a newly generated       *)
(* token (different from the token stored before and from every token      *)
(* stored or mailed so far), sends exactly one mail, the verification mail *)
(* to that email, whose verify and unsubscribe links carry the email and   *)
(* the stored token, and returns 200 "User subscribed successfully".       *)
(***************************************************************************)
C1_SubscribeIssuesFreshToken ==
    [][ \A e \in Emails :
          ( /\ Invocation
            /\ IsSubscribe(request', e)
            /\ fault' = "none"
            /\ ~(HasRecord(e) /\ table[e].verified) )
          =>
          ( /\ e \in DOMAIN table'
            /\ table'[e].email = e
            /\ table'[e].verified = FALSE
            /\ table'[e].token \in Tokens
            /\ table'[e].token \notin KnownTokens
            /\ \A o \in DOMAIN table' \ {e} : o \in DOMAIN table /\ table'[o] = table[o]
            /\ Len(sent') = 1
            /\ sent'[1].ToAddresses = << e >>
            /\ sent'[1].Subject = "Verify your email"
            /\ sent'[1].Body.Html.verify_url =
                 url("/verify", e, table'[e].token)
            /\ sent'[1].Body.Html.unsubscribe_url =
                 url("/unsubscribe", e, table'[e].token)
            /\ sent'[1].Body.Text.verify_url =
                 url("/verify", e, table'[e].token)
            /\ response' = Response(200, "User subscribed successfully") )
      ]_vars

\* a second subscribe for an address whose first verification mail was sent
\* and never confirmed has succeeded
C1_Witness ==
    \E e \in Emails :
        /\ IsSubscribe(request, e)
        /\ response = Response(200, "User subscribed successfully")
        /\ HasRecord(e)
        /\ \E t \in Tokens :
             /\ << e, t >> \in mailed
             /\ t # table[e].token
        /\ << e, table[e].token >> \in mailed
        /\ Len(sent) = 1

(***************************************************************************)
(* C2: a subscribe request for an email whose record is verified leaves    *)
(* the table unchanged (same token, still verified), sends no mail, and    *)
(* returns 400 "User already subscribed" (500 if reading the table         *)
(* raised).                                                                *)
(***************************************************************************)
C2_SubscribeVerifiedRejected ==
    [][ \A e \in Emails :
          ( /\ Invocation
            /\ IsSubscribe(request', e)
            /\ HasRecord(e)
            /\ table[e].verified )
          =>
          ( /\ table' = table
            /\ nextToken' = nextToken
            /\ sent' = << >>
            /\ mailed' = mailed
            /\ fault' \in {"none", "get_item"}
            /\ fault' = "none" =>
                 response' = Response(400, "User already subscribed") )
      ]_vars

C2_Witness ==
    \E e \in Emails :
        /\ IsSubscribe(request, e)
        /\ response = Response(400, "User already subscribed")
        /\ HasRecord(e)
        /\ table[e].verified
        /\ sent = << >>

(***************************************************************************)
(* C3: from every state of a record (pending, verified or unsubscribed),   *)
(* a verify request whose token equals the token stored for the email, in  *)
(* which no collaborator raises, puts the record with verified = true,     *)
(* sends exactly one mail, the confirmation mail to that email, and        *)
(* returns 200 "User verified successfully".                               *)
(***************************************************************************)
C3_VerifyWithStoredToken ==
    [][ \A e \in Emails : \A t \in Tokens :
          ( /\ Invocation
            /\ IsVerify(request', e, t)
            /\ HasRecord(e)
            /\ table[e].token = t
            /\ fault' = "none" )
          =>
          ( /\ e \in DOMAIN table'
            /\ table'[e].verified = TRUE
            /\ Len(sent') = 1
            /\ sent'[1].ToAddresses = << e >>
            /\ sent'[1].Subject = "Email verified"
            /\ sent'[1].Body.Html.unsubscribe_url = url("/unsubscribe", e, t)
            /\ response' = Response(200, "User verified successfully") )
      ]_vars

\* a record that was unsubscribed has been verified
C3_Witness ==
    \E e \in Emails : \E t \in Tokens :
        /\ IsVerify(request, e, t)
        /\ response = Response(200, "User verified successfully")
        /\ << e, t >> \in unsubscribedWith
        /\ HasRecord(e)
        /\ table[e].verified
        /\ Len(sent) = 1

(***************************************************************************)
(* C4: from every state of a record, an unsubscribe request whose token    *)
(* equals the stored token, in which no collaborator raises, puts the      *)
(* record with verified = false, keeps the record in the table, sends no   *)
(* mail, and returns 200 "You are successfully unsubscribed".              *)
(***************************************************************************)
C4_UnsubscribeWithStoredToken ==
    [][ \A e \in Emails : \A t \in Tokens :
          ( /\ Invocation
            /\ IsUnsubscribe(request', e, t)
            /\ HasRecord(e)
            /\ table[e].token = t
            /\ fault' = "none" )
          =>
          ( /\ DOMAIN table' = DOMAIN table
            /\ table'[e].verified = FALSE
            /\ table'[e].email = e
            /\ sent' = << >>
            /\ mailed' = mailed
            /\ response' = Response(200, "You are successfully unsubscribed") )
      ]_vars

\* a verified record has been unsubscribed
C4_Witness ==
    \E e \in Emails : \E t \in Tokens :
        /\ IsUnsubscribe(request, e, t)
        /\ response = Response(200, "You are successfully unsubscribed")
        /\ << e, t >> \in verifiedWith
        /\ HasRecord(e)
        /\ ~table[e].verified
        /\ table[e].token = t

(***************************************************************************)
(* C5: a verify or unsubscribe request for an email that has no record, or *)
(* whose token differs from the stored token, leaves the whole table       *)
(* unchanged, sends no mail, and returns 400 (500 if reading the table     *)
(* raised).                                                                *)
(***************************************************************************)
C5_MismatchChangesNothing ==
    [][ \A e \in Emails : \A t \in Tokens :
          ( /\ Invocation
            /\ IsVerify(request', e, t) \/ IsUnsubscribe(request', e, t)
            /\ ~HasRecord(e) \/ table[e].token # t )
          =>
          ( /\ table' = table
            /\ sent' = << >>
            /\ mailed' = mailed
            /\ fault' \in {"none", "get_item"}
            /\ fault' = "none" => response'.statusCode = 400 )
      ]_vars

\* a verify with a wrong token was refused for an address that has a record
C5_Witness ==
    \E e \in Emails : \E t \in Tokens :
        /\ IsVerify(request, e, t)
        /\ response.statusCode = 400
        /\ HasRecord(e)
        /\ table[e].token # t
        /\ ~table[e].verified
        /\ sent = << >>

(***************************************************************************)
(* C6: no leak.  The response to a verify (to an unsubscribe) request      *)
(* whose token is not the stored one is the same response whether the      *)
(* email has no record or has a record, in any state, with another token:  *)
(* in every such case it is the one response fixed by the operation and by *)
(* whether the read of the table raised, so status code and body do not    *)
(* depend on the table.                                                    *)
(***************************************************************************)
C6_NoLeak ==
    \A e \in Emails : \A t \in Tokens :
        ( /\ IsVerify(request, e, t) \/ IsUnsubscribe(request, e, t)
          /\ ~HasRecord(e) \/ table[e].token # t )
        =>
        response =
            IF fault = "get_item" THEN Response(500, "Internal server error")
            ELSE IF route(request) = "verify"
            THEN Response(400, "User verification failed")
            ELSE Response(400, "Failed to unsubscribe")

\* the refusal was given for an address that has a verified record
C6_Witness ==
    \E e \in Emails : \E t \in Tokens :
        /\ IsUnsubscribe(request, e, t)
        /\ response = Response(400, "Failed to unsubscribe")
        /\ HasRecord(e)
        /\ table[e].verified
        /\ table[e].token # t

\* the same refusal was given for an address that has no record
C6_WitnessNoRecord ==
    \E e \in Emails : \E t \in Tokens :
        /\ IsUnsubscribe(request, e, t)
        /\ response = Response(400, "Failed to unsubscribe")
        /\ ~HasRecord(e)

(***************************************************************************)
(* C7: double opt-in.  In every reachable state, a record has              *)
(* verified = true only if a verify request for its email carrying the     *)
(* token now stored for it has been processed, and that token was sent to  *)
(* that email in a verification mail; and a record becomes verified only   *)
(* in a verify request, never in subscribe or unsubscribe.                 *)
(* The code violates it: subscribe puts the item before it opens the       *)
(* templates and sends the mail, so a token is stored that was never       *)
(* mailed when one of those raises, and verify accepts it.                 *)
(***************************************************************************)
C7_DoubleOptIn ==
    [][ \A e \in DOMAIN table' :
          table'[e].verified =>
            /\ << e, table'[e].token >> \in verifiedWith'
            /\ << e, table'[e].token >> \in mailed'
            /\ (~HasRecord(e) \/ ~table[e].verified) =>
                 route(request') = "verify"
      ]_vars

(***************************************************************************)
(* C8: token rotation.  A subscribe request for an email that has an       *)
(* unverified record replaces the stored token by a newly generated one,   *)
(* and from then on a verify request carrying a token that was mailed to   *)
(* the email and is no longer the stored one is refused with 400 "User     *)
(* verification failed" and leaves the record as it is; a verify request   *)
(* is accepted only with the token stored by the latest subscribe.         *)
(***************************************************************************)
C8_TokenRotation ==
    [][ \A e \in Emails :
          /\ ( /\ Invocation
               /\ IsSubscribe(request', e)
               /\ HasRecord(e)
               /\ ~table[e].verified
               /\ fault' \notin {"get_item", "put_item"} )
             =>
             ( /\ table'[e].token # table[e].token
               /\ table'[e].token \notin KnownTokens
               /\ ~table'[e].verified )
          /\ \A t \in Tokens :
               /\ ( /\ Invocation
                    /\ IsVerify(request', e, t)
                    /\ << e, t >> \in mailed
                    /\ table[e].token # t )
                  =>
                  ( /\ table' = table
                    /\ sent' = << >>
                    /\ fault' = "none" =>
                         response' = Response(400, "User verification failed") )
               /\ ( /\ Invocation
                    /\ IsVerify(request', e, t)
                    /\ response'.statusCode = 200 )
                  =>
                  ( HasRecord(e) /\ table[e].token = t /\ table'[e].token = t )
      ]_vars

\* the first of two tokens mailed to an address was refused, the record
\* holds the second and is still unverified
C8_Witness ==
    \E e \in Emails : \E t1, t2 \in Tokens :
        /\ t1 < t2
        /\ << e, t1 >> \in mailed
        /\ << e, t2 >> \in mailed
        /\ IsVerify(request, e, t1)
        /\ response = Response(400, "User verification failed")
        /\ table[e].token = t2
        /\ ~table[e].verified

(***************************************************************************)
(* C9: the token of an unsubscribed record does not remain valid.  Once an *)
(* unsubscribe request with token T has succeeded for an email, a later    *)
(* verify or unsubscribe request carrying T for that email is refused and  *)
(* changes nothing, so a record is never verified under a token it was     *)
(* unsubscribed with.                                                      *)
(* The code violates it: unsubscribe writes the record back with the same  *)
(* token, and verify and unsubscribe compare the token only.               *)
(***************************************************************************)
C9_UnsubscribedTokenInvalid ==
    [][ \A e \in Emails : \A t \in Tokens :
          ( /\ Invocation
            /\ IsVerify(request', e, t) \/ IsUnsubscribe(request', e, t)
            /\ << e, t >> \in unsubscribedWith )
          =>
          ( /\ response'.statusCode # 200
            /\ table' = table )
      ]_vars

(***************************************************************************)
(* C10: no partial success.  A verify or unsubscribe request, whichever    *)
(* collaborator raises in it, either commits the new value of verified,    *)
(* sends its notification (the confirmation mail of verify) and returns    *)
(* 200, or leaves the table exactly as it was; a verify that does not      *)
(* return 200 has changed nothing.                                         *)
(* The code violates it: verify puts the item before it opens the          *)
(* templates and sends the mail, and does not undo the put when one of     *)
(* those raises.                                                           *)
(***************************************************************************)
C10_NoPartialSuccess ==
    [][ \A e \in Emails : \A t \in Tokens :
          ( /\ Invocation
            /\ IsVerify(request', e, t) \/ IsUnsubscribe(request', e, t) )
          =>
          \/ table' = table
          \/ /\ response'.statusCode = 200
             /\ table'[e].verified = IsVerify(request', e, t)
             /\ IsVerify(request', e, t) => Len(sent') = 1
      ]_vars

(***************************************************************************)
(* C11: verify is idempotent.  When a verify request with a valid token    *)
(* has returned 200 and the next request is the same verify request (same  *)
(* email, same token) in which no collaborator raises, the second returns  *)
(* the identical 200 response, and the record is verified with that same   *)
(* token after the first call and after the second.                        *)
(***************************************************************************)
C11_VerifyIdempotent ==
    [][ \A e \in Emails : \A t \in Tokens :
          ( /\ Invocation
            /\ IsVerify(request, e, t)
            /\ response = Response(200, "User verified successfully")
            /\ IsVerify(request', e, t)
            /\ fault' = "none" )
          =>
          ( /\ HasRecord(e)
            /\ table[e].verified
            /\ table[e].token = t
            /\ response' = response
            /\ e \in DOMAIN table'
            /\ table'[e].verified
            /\ table'[e].token = t
            /\ Len(sent') = 1 )
      ]_vars

\* a verify has returned 200 and the clock has advanced since, so that the
\* same verify made again is a step that writes a new updated_at
C11_Witness ==
    \E e \in Emails : \E t \in Tokens :
        /\ IsVerify(request, e, t)
        /\ response = Response(200, "User verified successfully")
        /\ HasRecord(e)
        /\ table[e].verified
        /\ table[e].token = t
        /\ table[e].updated_at < clock

(***************************************************************************)
(* C12: state coverage from an unverified record.  The only request that   *)
(* makes the record verified is a verify request carrying the stored       *)
(* token; an unsubscribe request leaves it with verified = false, in the   *)
(* one write it makes, so the record never shows verified = true on the    *)
(* way; and no request removes the record.                                 *)
(***************************************************************************)
C12_OnlyVerifyVerifies ==
    [][ \A e \in Emails :
          ( /\ Invocation
            /\ HasRecord(e)
            /\ ~table[e].verified )
          =>
          ( /\ e \in DOMAIN table'
            /\ table'[e].verified =>
                 /\ IsVerify(request', e, table[e].token)
                 /\ table'[e].token = table[e].token
            /\ \A t \in Tokens :
                 IsUnsubscribe(request', e, t) => ~table'[e].verified )
      ]_vars

\* a record that was never verified has been unsubscribed with its token
C12_Witness ==
    \E e \in Emails : \E t \in Tokens :
        /\ IsUnsubscribe(request, e, t)
        /\ response = Response(200, "You are successfully unsubscribed")
        /\ << e, t >> \in unsubscribedWith
        /\ \A u \in Tokens : << e, u >> \notin verifiedWith
        /\ HasRecord(e)
        /\ ~table[e].verified

(***************************************************************************)
(* C13: dispatch.  A request is answered by subscribe exactly when it is   *)
(* POST /subscribe, by verify exactly when it is GET /verify, by           *)
(* unsubscribe exactly when it is GET /unsubscribe; every other (method,   *)
(* path) pair returns 405 "Method not allowed", changes nothing in the     *)
(* table and sends no mail, and 405 is returned for no other request.      *)
(***************************************************************************)
SubscribeResponses ==
    { Response(400, "Email is required"),
      Response(400, "User already subscribed"),
      Response(200, "User subscribed successfully"),
      Response(500, "Internal server error") }

VerifyResponses ==
    { Response(400, "Email and token are required"),
      Response(400, "User verification failed"),
      Response(200, "User verified successfully"),
      Response(500, "Internal server error") }

UnsubscribeResponses ==
    { Response(400, "Email and token are required"),
      Response(400, "Failed to unsubscribe"),
      Response(200, "You are successfully unsubscribed"),
      Response(500, "Internal server error") }

C14_FaultsGive500 ==
    [][ Invocation =>
          /\ fault' # "none" =>
               response' = Response(500, "Internal server error")
          /\ response'.headers = headers
          /\ response'.statusCode \in {200, 400, 405, 500}
          /\ response'.statusCode = 500 <=> fault' # "none"
      ]_vars

\* the read of the table raised in a verify
C14_Witness ==
    /\ route(request) = "verify"
    /\ fault = "get_item"
    /\ response = Response(500, "Internal server error")

(***************************************************************************)
(* C15: a missing required field gives 400.  A subscribe request whose     *)
(* body has no email or an empty one, and a verify or unsubscribe request  *)
(* in which email or token or both are missing or empty, a request with    *)
(* no query parameters at all included, returns 400, changes nothing in    *)
(* the table and sends no mail.                                            *)
(* The code violates it: with no query parameters at all                   *)
(* event["queryStringParameters"] is None (or the key is missing),         *)
(* query_params.get raises, and the handler returns 500.                   *)
(***************************************************************************)
C15_MissingFieldGives400 ==
    [][ ( /\ Invocation
          /\ \/ /\ route(request') = "subscribe"
                /\ request'.body.kind = "object"
                /\ Falsy(request'.body.email)
             \/ /\ route(request') \in {"verify", "unsubscribe"}
                /\ \/ request'.queryStringParameters.kind # "object"
                   \/ Falsy(request'.queryStringParameters.email)
                   \/ request'.queryStringParameters.token = NoToken )
        =>
        ( /\ response'.statusCode = 400
          /\ table' = table
          /\ sent' = << >> )
      ]_vars

(***************************************************************************)
(* C19: frame of verify and unsubscribe.  A verify or unsubscribe request  *)
(* that returns 200 changes only the verified flag and updated_at of the   *)
(* record it addresses: email, token and created_at of that record and     *)
(* every other record are unchanged, so the token issued by subscribe is   *)
(* the token that authorizes the later verify and unsubscribe.             *)
(***************************************************************************)
C19_VerifyUnsubscribeFrame ==
    [][ \A e \in Emails : \A t \in Tokens :
          ( /\ Invocation
            /\ IsVerify(request', e, t) \/ IsUnsubscribe(request', e, t)
            /\ response'.statusCode = 200 )
          =>
          ( /\ HasRecord(e)
            /\ DOMAIN table' = DOMAIN table
            /\ table'[e].email = table[e].email
            /\ table'[e].token = table[e].token
            /\ table'[e].token = t
            /\ table'[e].created_at = table[e].created_at
            /\ table'[e].updated_at = clock
            /\ table'[e].verified = IsVerify(request', e, t)
            /\ \A o \in DOMAIN table \ {e} : table'[o] = table[o]
            /\ nextToken' = nextToken )
      ]_vars

\* a verify returned 200 after the clock had advanced since the subscribe
C19_Witness ==
    \E e \in Emails : \E t \in Tokens :
        /\ IsVerify(request, e, t)
        /\ response = Response(200, "User verified successfully")
        /\ HasRecord(e)
        /\ table[e].created_at < table[e].updated_at
        /\ table[e].verified

(***************************************************************************)
(* C20: a subscribe request that does not return 200 (400 for a missing    *)
(* email or a verified record, 500 for a collaborator that raises, the     *)
(* template read and the sender included) leaves the table unchanged, so   *)
(* every token it holds is one that was mailed.                            *)
(* The code violates it: subscribe puts the item before it opens the       *)
(* templates and sends the mail, and does not undo the put when one of     *)
(* those raises.                                                           *)
(***************************************************************************)
C20_FailedSubscribeChangesNothing ==
    [][ ( /\ Invocation
          /\ route(request') = "subscribe"
          /\ response'.statusCode # 200 )
        =>
        table' = table
      ]_vars

(***************************************************************************)
(* C16: requests for different emails never interact.  Under every         *)
(* interleaving, a step of an invocation for email A changes no other      *)
(* invocation's state, leaves every record of another email as it was      *)
(* (none is added, removed or changed), sends no mail to another address,  *)
(* takes into its locals no item of another email, and what it does is     *)
(* what it would do were A's record the only one in the table.             *)
(***************************************************************************)
\* the email of the invocation that takes a step in environment p
StepEmail(p) ==
    IF inflight[p].pc \in {"idle", "returned"}
    THEN inflight'[p].email
    ELSE inflight[p].email

C16_DifferentEmailsNeverInteract ==
    [][ \A p \in Lambdas :
          inflight'[p] # inflight[p] =>
            /\ \A q \in Lambdas \ {p} : inflight'[q] = inflight[q]
            /\ \A b \in Emails \ {StepEmail(p)} :
                 /\ b \in DOMAIN table' <=> b \in DOMAIN table
                 /\ b \in DOMAIN table => table'[b] = table[b]
                 /\ \A t \in Tokens :
                      << b, t >> \in replaced' <=> << b, t >> \in replaced
            /\ sent' # sent => sent'[1].ToAddresses = << StepEmail(p) >>
            /\ inflight'[p].item # NoItem =>
                 inflight'[p].item.email = StepEmail(p)
            /\ inflight[p].pc = "get_item" /\ inflight'[p].pc = "returned" =>
                 inflight'[p].response \in
                   { InternalServerError,
                     IF inflight[p].op = "subscribe"
                     THEN Response(400, "User already subscribed")
                     ELSE IF inflight[p].op = "verify"
                     THEN Response(400, "User verification failed")
                     ELSE Response(400, "Failed to unsubscribe") }
            /\ ( /\ inflight[p].pc = "get_item"
                 /\ inflight'[p].pc = "returned"
                 /\ inflight'[p].response # InternalServerError ) =>
                 IF inflight[p].op = "subscribe"
                 THEN /\ HasRecord(StepEmail(p))
                      /\ table[StepEmail(p)].verified
                 ELSE \/ ~HasRecord(StepEmail(p))
                      \/ table[StepEmail(p)].token # inflight[p].token
            /\ inflight'[p].pc = "put_item" /\ inflight[p].op # "subscribe" =>
                 /\ HasRecord(StepEmail(p))
                 /\ table[StepEmail(p)].token = inflight[p].token
      ]_vars

\* invocations for two emails are in flight, one has put its item and the
\* other is about to, and both records are in the table
C16_Witness ==
    \E p \in Lambdas : \E q \in Lambdas :
        /\ inflight[p].pc = "send_email"
        /\ inflight[q].pc = "put_item"
        /\ inflight[p].email # inflight[q].email
        /\ HasRecord(inflight[p].email)
        /\ HasRecord(inflight[q].email)
        /\ table[inflight[p].email] = inflight[p].item

(***************************************************************************)
(* C17: under every interleaving, the put of a subscribe request is never  *)
(* made over a record that is verified when the put is made.               *)
(* The code violates it: subscribe tests "verified" on the item get_user   *)
(* returned and puts unconditionally; a verify that puts between the two   *)
(* calls is overwritten with verified = false and a new token.             *)
(***************************************************************************)
C17_SubscribeNeverOverwritesVerified ==
    [][ \A p \in Lambdas :
          ( /\ inflight[p].op = "subscribe"
            /\ inflight[p].pc = "put_item"
            /\ inflight'[p].pc = "send_email" )
          =>
          ~( /\ HasRecord(inflight[p].email)
             /\ table[inflight[p].email].verified )
      ]_vars

(***************************************************************************)
(* C18: under every interleaving, a token that a put of subscribe has      *)
(* replaced in a record is never the token of that record again.           *)
(* The code violates it: verify and unsubscribe put the whole item that    *)
(* get_user returned; a subscribe that puts a new token between the two    *)
(* calls is overwritten with the token it replaced.                        *)
(***************************************************************************)
C18_ReplacedTokenNeverStored ==
    \A e \in DOMAIN table : << e, table[e].token >> \notin replaced

=============================================================================
